---- MODULE Spec2Model ----
(***************************************************************************)
(* A model of src/main.py: the parsy grammar of the filter mini-language   *)
(* `table.column:v1,v2;table2.column2:v3` and the normalisation of the     *)
(* parsed value lists (unique_sort_list).                                  *)
(*                                                                         *)
(* Text is a sequence of one-character strings, indexed from 0 as in       *)
(* Python (stream[index] is stream[index + 1] here).  A parser is a record *)
(* of how it was built; run(P, stream, index) is the parsy Result of       *)
(* calling it.                                                             *)
(***************************************************************************)
EXTENDS Integers, Sequences, FiniteSets, TLC

VARIABLES
    input,      \* the text handed to the parser
    written,    \* the number of chunks the text was written in
    pc,         \* "input" while the text is being written, then "done"
    outcome,    \* what predicate_list.parse(input) returned or raised
    partial,    \* what a parser applied at offset 0 returned (a Result)
    hash_none,  \* hash(None) of the interpreter build
    hash_str,   \* hash of each string of this process (PYTHONHASHSEED)
    raw,        \* a raw element list handed to unique_sort_list
    raw2,       \* a second raw element list
    norm,       \* unique_sort_list(raw)
    norm2,      \* unique_sort_list(raw2)
    renorm      \* unique_sort_list(norm)

vars == <<input, written, pc, outcome, partial, hash_none, hash_str, raw, raw2, norm, norm2, renorm>>

-----------------------------------------------------------------------------
(* Characters *)

DigitSeq == <<"0", "1", "2", "3", "4", "5", "6", "7", "8", "9">>
LowerSeq == <<"a", "b", "c", "d", "e", "f", "g", "h", "i", "j", "k", "l", "m",
              "n", "o", "p", "q", "r", "s", "t", "u", "v", "w", "x", "y", "z">>
UpperSeq == <<"A", "B", "C", "D", "E", "F", "G", "H", "I", "J", "K", "L", "M",
              "N", "O", "P", "Q", "R", "S", "T", "U", "V", "W", "X", "Y", "Z">>

Range(s) == {s[i] : i \in DOMAIN s}
Digit == Range(DigitSeq)
Lower == Range(LowerSeq)
Upper == Range(UpperSeq)

IndexIn(s, c) == CHOOSE i \in DOMAIN s : s[i] = c

IsDigit(c) == c \in Digit
DigitVal(c) == IndexIn(DigitSeq, c) - 1

\* str.lower() on one character
LowerChar(c) == IF c \in Upper THEN LowerSeq[IndexIn(UpperSeq, c)] ELSE c
lower(s) == [i \in DOMAIN s |-> LowerChar(s[i])]
noop(s) == s

\* Python's stream[a:b]
Slice(stream, a, b) ==
    SubSeq(stream, a + 1, IF b < Len(stream) THEN b ELSE Len(stream))

\* The end (exclusive, 0-based) of the longest run of characters of a class
\* that starts at index: a greedy X* of a regular expression.
RunEnd(stream, index, class) ==
    CHOOSE j \in index..Len(stream) :
        /\ \A k \in (index + 1)..j : stream[k] \in class
        /\ (j = Len(stream) \/ stream[j + 1] \notin class)

\* The characters of the string literals the grammar names
Chars(s) ==
    CASE s = "null" -> <<"n", "u", "l", "l">>
      [] s = "true" -> <<"t", "r", "u", "e">>
      [] s = "false" -> <<"f", "a", "l", "s", "e">>
      [] s = "." -> <<".">>
      [] s = "," -> <<",">>
      [] s = ":" -> <<":">>
      [] s = ";" -> <<";">>

-----------------------------------------------------------------------------
(* parsy: Result and the combinators the grammar uses *)

\* Python's None, as a value and as a list element
None == [t |-> "None"]

\* "result = None" before a combinator's loop
NoResult == [t |-> "NoResult"]

Success(index, value) ==
    [status |-> TRUE, index |-> index, value |-> value,
     furthest |-> -1, expected |-> {}]

Failure(index, expected) ==
    [status |-> FALSE, index |-> -1, value |-> None,
     furthest |-> index, expected |-> {expected}]

\* Result.aggregate: keep self's outcome, and the furthest failure of the two
aggregate(self, other) ==
    IF other = NoResult THEN self
    ELSE IF self.furthest > other.furthest THEN self
    ELSE IF self.furthest = other.furthest
         THEN [self EXCEPT !.expected = self.expected \cup other.expected]
    ELSE [self EXCEPT !.furthest = other.furthest, !.expected = other.expected]

\* A parser is a record that names the primitive or the method that built it
\* and holds what it was built from; run, further down, applies it.

\* string(expected_string, transform)
string(expected_string, transform) ==
    [op |-> "string", expected_string |-> expected_string, transform |-> transform]

\* regex(exp)
regex(exp) == [op |-> "regex", exp |-> exp]

\* eof
eof == [op |-> "eof"]

\* Parser.desc
desc(P, description) == [op |-> "desc", parser |-> P, description |-> description]

\* Parser.map (bind with success(map_function(res)))
map(P, map_function) == [op |-> "map", parser |-> P, map_function |-> map_function]

\* alt(*parsers); P | Q is alt(P, Q)
alt(parsers) == [op |-> "alt", parsers |-> parsers]

\* seq(*parsers); the value is the list of the values
seq(parsers) == [op |-> "seq", parsers |-> parsers]

\* P >> Q: both in sequence, the value of Q
then(P, Q) == map(seq(<<P, Q>>), "right")

\* P << Q: both in sequence, the value of P
skip(P, Q) == map(seq(<<P, Q>>), "left")

\* Parser.times(min, max); unbounded is float("inf"), here max = -1
times(P, min, max) == [op |-> "times", parser |-> P, min |-> min, max |-> max]

\* Parser.sep_by(sep, min=1): self.times(1) + (sep >> self).times(min - 1, inf)
sep_by(P, sep, min) ==
    map(seq(<<times(P, 1, 1), times(then(sep, P), min - 1, -1)>>), "add")

-----------------------------------------------------------------------------
(* The regular expressions *)

\* IDENTIFIER_RE = [a-zA-Z_][a-zA-Z0-9_]* : the end of the match, or -1
IsIdentStart(c) == c \in Lower \cup Upper \cup {"_"}
IsIdentChar(c) == IsIdentStart(c) \/ IsDigit(c)

IDENTIFIER_RE(stream, index) ==
    IF index < Len(stream) /\ IsIdentStart(stream[index + 1])
    THEN RunEnd(stream, index + 1, {c \in Range(stream) : IsIdentChar(c)})
    ELSE -1

\* [-+]?[0-9]*\.?[0-9]+([eE][-+]?[0-9]+)? : where the parts of the match end;
\* end = -1 when there is no match.  [0-9]* is greedy and gives one digit back
\* to [0-9]+ when no fraction follows; the exponent is taken only when whole.
\* The match is made part by part: the exponent, given all before it
FLOAT_RE_exponent(s0, d1, hasFrac, mEnd, e1, e2) ==
    [end |-> IF mEnd < 0 THEN -1 ELSE IF e2 > e1 THEN e2 ELSE mEnd,
     s0 |-> s0, d1 |-> d1, hasFrac |-> hasFrac, mEnd |-> mEnd,
     hasExp |-> e2 > e1, e1 |-> e1, e2 |-> e2]

\* ([eE][-+]?[0-9]+)? after a mantissa that ends at mEnd (-1: no mantissa)
FLOAT_RE_e(stream, s0, d1, hasFrac, mEnd) ==
    LET n == Len(stream)
        hasE == mEnd >= 0 /\ mEnd < n /\ stream[mEnd + 1] \in {"e", "E"}
        e1 == IF hasE /\ mEnd + 1 < n /\ stream[mEnd + 2] \in {"-", "+"}
              THEN mEnd + 2 ELSE mEnd + 1
    IN  FLOAT_RE_exponent(s0, d1, hasFrac, mEnd, e1,
                          IF hasE THEN RunEnd(stream, e1, Digit) ELSE -1)

\* \.?[0-9]+ after the digits s0..d1 of [0-9]*
FLOAT_RE_fraction(stream, s0, d1) ==
    IF d1 + 1 < Len(stream) /\ stream[d1 + 1] = "." /\ IsDigit(stream[d1 + 2])
    THEN FLOAT_RE_e(stream, s0, d1, TRUE, RunEnd(stream, d1 + 1, Digit))
    ELSE FLOAT_RE_e(stream, s0, d1, FALSE, IF d1 > s0 THEN d1 ELSE -1)

\* [0-9]* from s0, after the sign
FLOAT_RE_digits(stream, s0) == FLOAT_RE_fraction(stream, s0, RunEnd(stream, s0, Digit))

FLOAT_RE(stream, index) ==
    FLOAT_RE_digits(stream,
                    IF index < Len(stream) /\ stream[index + 1] \in {"-", "+"}
                    THEN index + 1 ELSE index)

\* JSON_STR_RE = "(\\(["\\\/bfnrt]|u[a-fA-F0-9]{4})|[^"\\\0-\x1F\x7F]+)*"
SimpleEscape == {"\"", "\\", "/", "b", "f", "n", "r", "t"}
IsHex(c) == IsDigit(c) \/ c \in {"a", "b", "c", "d", "e", "f", "A", "B", "C", "D", "E", "F"}
IsControl(c) == c \in {"\t", "\n", "\f", "\r"}

RECURSIVE json_str_body(_, _)
\* from p, inside the quotes: the end of the match (after the closing quote), or -1
json_str_body(stream, p) ==
    IF p >= Len(stream) THEN -1
    ELSE LET c == stream[p + 1]
         IN  IF c = "\"" THEN p + 1
             ELSE IF c = "\\"
                  THEN IF p + 1 < Len(stream) /\ stream[p + 2] \in SimpleEscape
                       THEN json_str_body(stream, p + 2)
                       ELSE IF /\ p + 5 < Len(stream)
                               /\ stream[p + 2] = "u"
                               /\ \A k \in 3..6 : IsHex(stream[p + k])
                            THEN json_str_body(stream, p + 6)
                            ELSE -1
             ELSE IF IsControl(c) THEN -1
             ELSE json_str_body(stream, p + 1)

JSON_STR_RE(stream, index) ==
    IF index < Len(stream) /\ stream[index + 1] = "\""
    THEN json_str_body(stream, index + 1)
    ELSE -1

\* exp.pattern
pattern(exp) ==
    CASE exp = "IDENTIFIER_RE" -> "[a-zA-Z_][a-zA-Z0-9_]*"
      [] exp = "FLOAT_RE" -> "[-+]?[0-9]*\\.?[0-9]+([eE][-+]?[0-9]+)?"
      [] exp = "JSON_STR_RE" ->
             "\"(\\\\([\"\\\\\\/bfnrt]|u[a-fA-F0-9]{4})|[^\"\\\\\\0-\\x1F\\x7F]+)*\""

\* exp.match(stream, index): the end of the match, or -1
match_end(exp, stream, index) ==
    CASE exp = "IDENTIFIER_RE" -> IDENTIFIER_RE(stream, index)
      [] exp = "FLOAT_RE" -> FLOAT_RE(stream, index).end
      [] exp = "JSON_STR_RE" -> JSON_STR_RE(stream, index)

-----------------------------------------------------------------------------
(* Values: float(), int(), json.loads() *)

RECURSIVE Pow10(_)
Pow10(n) == IF n = 0 THEN 1 ELSE 10 * Pow10(n - 1)

RECURSIVE DigitsVal(_)
DigitsVal(s) ==
    IF s = <<>> THEN 0
    ELSE 10 * DigitsVal(SubSeq(s, 1, Len(s) - 1)) + DigitVal(s[Len(s)])

RECURSIVE Decimal(_, _)
\* m * 10^-k with no trailing zero in the fraction
Decimal(m, k) ==
    IF k < 0 THEN Decimal(m * Pow10(-k), 0)
    ELSE IF k > 0 /\ m % 10 = 0 THEN Decimal(m \div 10, k - 1)
    ELSE [t |-> "float", m |-> m, k |-> k]

\* float(text) of a text FLOAT_RE matched as f: the value m * 10^-k.  -0.0 and
\* 0.0 are equal in Python and are one value here.
float_parts(neg, ip, fp, ex) ==
    Decimal(IF neg THEN -DigitsVal(ip \o fp) ELSE DigitsVal(ip \o fp), Len(fp) - ex)

float_match(text, f) ==
    float_parts(f.s0 = 1 /\ text[1] = "-",
                Slice(text, f.s0, f.d1),
                IF f.hasFrac THEN Slice(text, f.d1 + 1, f.mEnd) ELSE <<>>,
                IF ~f.hasExp THEN 0
                ELSE IF text[f.e1] = "-" THEN -DigitsVal(Slice(text, f.e1, f.e2))
                ELSE DigitsVal(Slice(text, f.e1, f.e2)))

float(text) == float_match(text, FLOAT_RE(text, 0))

is_integer(f) == f.k = 0

\* int(f) of an integral float
int(f) == [t |-> "int", n |-> f.m]

\* ord() of the printable ASCII characters and of the escapes of a TLA+ string
\* (the grave accent, 0x60, cannot be written in a TLA+ string: "GRAVE" is it)
AsciiSeq ==
    <<" ", "!", "\"", "#", "$", "%", "&", "'", "(", ")", "*", "+", ",", "-", ".", "/">>
    \o DigitSeq \o <<":", ";", "<", "=", ">", "?", "@">> \o UpperSeq
    \o <<"[", "\\", "]", "^", "_", "GRAVE">> \o LowerSeq \o <<"{", "|", "}", "~">>

ord(c) ==
    CASE c = "\t" -> 9
      [] c = "\n" -> 10
      [] c = "\f" -> 12
      [] c = "\r" -> 13
      [] OTHER -> IndexIn(AsciiSeq, c) + 31

HexVal(c) ==
    IF IsDigit(c) THEN DigitVal(c)
    ELSE 9 + IndexIn(<<"a", "b", "c", "d", "e", "f">>, LowerChar(c))

Hex4(stream, p) ==
    4096 * HexVal(stream[p + 1]) + 256 * HexVal(stream[p + 2])
    + 16 * HexVal(stream[p + 3]) + HexVal(stream[p + 4])

EscapeVal(c) ==
    CASE c = "b" -> 8
      [] c = "f" -> 12
      [] c = "n" -> 10
      [] c = "r" -> 13
      [] c = "t" -> 9
      [] OTHER -> ord(c)

RECURSIVE json_decode(_, _)
\* json.loads of a matched literal, from p inside the quotes: the code points
\* of the text (a surrogate pair of \u escapes is one code point)
json_decode(text, p) ==
    LET c == text[p + 1]
    IN  IF c = "\"" THEN <<>>
        ELSE IF c # "\\" THEN <<ord(c)>> \o json_decode(text, p + 1)
        ELSE IF text[p + 2] # "u" THEN <<EscapeVal(text[p + 2])>> \o json_decode(text, p + 2)
        ELSE LET uni == Hex4(text, p + 2)
                 paired == /\ uni >= 55296 /\ uni <= 56319
                           /\ p + 11 < Len(text)
                           /\ text[p + 7] = "\\" /\ text[p + 8] = "u"
                           /\ \A k \in 9..12 : IsHex(text[p + k])
                           /\ Hex4(text, p + 8) >= 56320 /\ Hex4(text, p + 8) <= 57343
             IN  IF paired
                 THEN <<65536 + (uni - 55296) * 1024 + (Hex4(text, p + 8) - 56320)>>
                      \o json_decode(text, p + 12)
                 ELSE <<uni>> \o json_decode(text, p + 6)

json_loads(text) == [t |-> "str", s |-> json_decode(text, 1)]

bool(b) == [t |-> "bool", b |-> b]

-----------------------------------------------------------------------------
(* CPython's hash() and set, as far as the order of iteration needs them *)

\* hash(v), its low 30 bits as a signed number: None (the build's), bool, str
\* (the process's randomised hash), an int or integral float n below 2^30 in
\* size (hash(n) = n, hash(-1) = -2) and a float that is not integral, not
\* negative and has a binary fraction, whose hash is its integer part plus a
\* multiple of 2^58.
hash(v) ==
    CASE v.t = "None" -> hash_none
      [] v.t = "bool" -> IF v.b THEN 1 ELSE 0
      [] v.t = "str" -> hash_str[v.s]
      [] v.t = "int" -> IF v.n = -1 THEN -2 ELSE v.n
      [] v.t = "float" /\ v.k = 0 -> IF v.m = -1 THEN -2 ELSE v.m
      [] v.t = "float" /\ v.k > 0 /\ v.m > 0 -> v.m \div Pow10(v.k)

\* ((size_t)hash(v) >> (5 * s)) & mask, the perturbation of the s-th probe, for
\* a mask of 7 or 31.  Bits 30 and up are the sign's; those of a float that is
\* not integral are known up to bit 57.
HashBits(v, s, mask) ==
    CASE s <= 5 -> ((hash(v) % (2 ^ 30)) \div (32 ^ s)) % (mask + 1)
      [] s > 5 /\ s <= 11 -> IF hash(v) < 0 THEN mask ELSE 0
      [] s = 12 /\ (v.t # "float" \/ v.k = 0) -> IF hash(v) < 0 THEN 15 % (mask + 1) ELSE 0
      [] s > 12 -> 0

EmptySlot == [t |-> "empty"]

\* a new set: PySet_MINSIZE slots
EmptySet == [mask |-> 7, fill |-> 0, table |-> [i \in 0..7 |-> EmptySlot]]

RECURSIVE set_find_slot(_, _, _, _)
\* the probe loop of set_add_entry: the slot that holds key, or the unused
\* slot key goes to; i is the slot probed, s the number of perturb shifts
set_find_slot(so, key, i, s) ==
    LET probes == IF i + 9 <= so.mask THEN 9 ELSE 0
        hit == {j \in 0..probes : so.table[i + j] = EmptySlot \/ so.table[i + j] = key}
    IN  IF hit # {} THEN i + (CHOOSE j \in hit : \A j2 \in hit : j <= j2)
        ELSE set_find_slot(so, key,
                           (i * 5 + 1 + HashBits(key, s + 1, so.mask)) % (so.mask + 1),
                           s + 1)

\* set_add_entry without the resize
set_insert(so, key) ==
    LET i == set_find_slot(so, key, HashBits(key, 0, so.mask), 0)
    IN  IF so.table[i] = key THEN so
        ELSE [so EXCEPT !.fill = @ + 1, !.table[i] = key]

RECURSIVE set_reinsert(_, _, _)
\* set_table_resize: the entries of the old table, slot by slot, into the new
set_reinsert(new, old, i) ==
    IF i > old.mask THEN new
    ELSE set_reinsert(IF old.table[i] = EmptySlot THEN new ELSE set_insert(new, old.table[i]),
                      old, i + 1)

RECURSIVE NewSize(_, _)
NewSize(size, minused) == IF size <= minused THEN NewSize(2 * size, minused) ELSE size

set_table_resize(so, minused) ==
    LET newsize == NewSize(8, minused)
    IN  set_reinsert([mask |-> newsize - 1, fill |-> 0,
                      table |-> [i \in 0..(newsize - 1) |-> EmptySlot]], so, 0)

\* set_add_entry
set_add_entry(so, key) ==
    LET so2 == set_insert(so, key)
    IN  IF so2.fill = so.fill \/ so2.fill * 5 < so2.mask * 3 THEN so2
        ELSE set_table_resize(so2, so2.fill * 4)

RECURSIVE set_update(_, _, _)
set_update(so, iterable, i) ==
    IF i > Len(iterable) THEN so
    ELSE set_update(set_add_entry(so, iterable[i]), iterable, i + 1)

\* set(iterable)
set(iterable) == set_update(EmptySet, iterable, 1)

RECURSIVE set_iter(_, _)
\* the elements of a set in the order of iteration: slot by slot
set_iter(so, i) ==
    IF i > so.mask THEN <<>>
    ELSE (IF so.table[i] = EmptySlot THEN <<>> ELSE <<so.table[i]>>) \o set_iter(so, i + 1)

-----------------------------------------------------------------------------
(* src/main.py *)

is_empty(self) == Len(self.value) = 0
is_single(self) == Len(self.value) = 1
is_many(self) == Len(self.value) # 1

\* f(item), for the f the program gives to map_ignore_none
apply(f, item) == CASE f = "int" -> int(item)

map_ignore_none(f, iterable) ==
    [i \in DOMAIN iterable |-> IF iterable[i] = None THEN None ELSE apply(f, iterable[i])]

\* sorted(exprs, key=lambda v: v is not None): the list itself, not its set
unique_sort_list_keep_repeats(exprs) ==
    SelectSeq(exprs, LAMBDA v : v = None) \o SelectSeq(exprs, LAMBDA v : v # None)

\* sorted(set(exprs), key=lambda v: v is not None): sorted is stable, the key
\* is False for None and True for every other element
unique_sort_list(exprs) ==
    LET items == set_iter(set(exprs), 0)
    IN  SelectSeq(items, LAMBDA v : v = None) \o SelectSeq(items, LAMBDA v : v # None)

TableReference(table, column) == [table |-> table, column |-> column]
NumExpr(value) == [type |-> "NumExpr", value |-> value]
StrExpr(value) == [type |-> "StrExpr", value |-> value]
BoolNullExpr(value) == [type |-> "BoolNullExpr", value |-> value]
TablePredicate(table_reference, expr) == [table_reference |-> table_reference, expr |-> expr]
\* a list that keeps one predicate, the first, of each table.column reference
TablePredicateList_by_reference(predicates) ==
    LET first == {k \in DOMAIN predicates :
                     \A j \in 1..(k - 1) :
                         predicates[j].table_reference # predicates[k].table_reference}
        RECURSIVE pick(_)
        pick(k) == IF k > Len(predicates) THEN <<>>
                   ELSE (IF k \in first THEN <<predicates[k]>> ELSE <<>>) \o pick(k + 1)
    IN  [predicates |-> pick(1)]

TablePredicateList(predicates) == [predicates |-> predicates]

null_token == map(string("null", "lower"), "None")

table_reference ==
    desc(map(seq(<<desc(regex("IDENTIFIER_RE"), "table name"),
                   desc(string(".", "noop"), "table name/column delimiter"),
                   desc(regex("IDENTIFIER_RE"), "table column")>>),
             "TableReference"),
         "table.column reference")

float_token == desc(map(regex("FLOAT_RE"), "float"), "number")

num_or_null_token == alt(<<float_token, null_token>>)

\* a coercion that decides int or float number by number
num_list_coerce_each(f_list) ==
    [k \in DOMAIN f_list |->
        IF f_list[k] = None THEN None
        ELSE IF is_integer(f_list[k]) THEN int(f_list[k])
        ELSE f_list[k]]

\* the .map of num_or_null_token_list: ints when every number is integral
num_list_coerce(f_list) ==
    IF \A k \in DOMAIN f_list : f_list[k] = None \/ is_integer(f_list[k])
    THEN map_ignore_none("int", f_list)
    ELSE f_list

num_or_null_token_list ==
    desc(map(sep_by(num_or_null_token, string(",", "noop"), 1), "num_list_coerce"),
         "comma delimited list of ints or floats")

str_token == desc(map(regex("JSON_STR_RE"), "json.loads"), "valid, JSON-encoded string")

str_or_none == alt(<<str_token, null_token>>)

str_or_null_token_list ==
    desc(sep_by(str_or_none, string(",", "noop"), 1),
         "comma delimited list of valid, JSON-encoded strings")

\* string_from("true", "false"): an alt of the strings, the longest first
bool_token ==
    desc(map(alt(<<string("false", "lower"), string("true", "lower")>>), "val == true"),
         "true/false/null")

bool_or_null == alt(<<bool_token, null_token>>)

bool_null_token_list ==
    desc(sep_by(bool_or_null, string(",", "noop"), 1),
         "comma delimited list of true/false/null")

num_expr == desc(map(num_or_null_token_list, "NumExpr"), "number list expression")

str_expr == desc(map(str_or_null_token_list, "StrExpr"), "string list expression")

bool_expr == desc(map(bool_null_token_list, "BoolNullExpr"), "true/false list expression")

expr == desc(alt(<<alt(<<str_expr, num_expr>>), bool_expr>>), "expression")

predicate ==
    desc(map(seq(<<table_reference, string(":", "noop"), expr>>), "TablePredicate"),
         "table.column predicate")

predicate_list ==
    desc(map(sep_by(predicate, string(";", "noop"), 1), "TablePredicateList"),
         "semicolon delimited list of predicates")

-----------------------------------------------------------------------------
(* parsy: what a parser does when it is called *)

\* the transform of string() and string_from()
transformed(transform, s) == IF transform = "lower" THEN lower(s) ELSE noop(s)

\* string(): string_parser
string_parser(expected_string, transform, stream, index) ==
    IF transformed(transform, Slice(stream, index, index + Len(Chars(expected_string))))
       = transformed(transform, Chars(expected_string))
    THEN Success(index + Len(Chars(expected_string)), expected_string)
    ELSE Failure(index, expected_string)

\* regex(): regex_parser, given the end of the match;
\* Success(match.end(), match.group(0)) or Failure(index, exp.pattern)
regex_parser(exp, end, stream, index) ==
    IF end >= 0 THEN Success(end, Slice(stream, index, end))
    ELSE Failure(index, pattern(exp))

\* eof that asks nothing of the rest of the text
eof_anywhere(stream, index) == Success(index, None)

\* eof: eof_parser
eof_parser(stream, index) ==
    IF index >= Len(stream) THEN Success(index, None) ELSE Failure(index, "EOF")

\* Parser.desc: desc_parser, given the result of self(stream, index)
desc_parser(result, description, index) ==
    IF result.status THEN result ELSE Failure(index, description)

\* the functions the grammar maps over the values of its parsers
call(map_function, res) ==
    CASE map_function = "None" -> None
      [] map_function = "float" -> float(res)
      [] map_function = "json.loads" -> json_loads(res)
      [] map_function = "val == true" -> bool(res = "true")
      [] map_function = "num_list_coerce" -> num_list_coerce(res)
      [] map_function = "NumExpr" -> NumExpr(unique_sort_list(res))
      [] map_function = "StrExpr" -> StrExpr(unique_sort_list(res))
      [] map_function = "BoolNullExpr" -> BoolNullExpr(unique_sort_list(res))
      [] map_function = "TableReference" -> TableReference(res[1], res[3])
      [] map_function = "TablePredicate" -> TablePredicate(res[1], res[3])
      [] map_function = "TablePredicateList" -> TablePredicateList(res)
      [] map_function = "left" -> res[1]
      [] map_function = "right" -> res[2]
      [] map_function = "add" -> res[1] \o res[2]

\* Parser.map: bound_parser, given the result of self(stream, index)
bound_parser(result, map_function) ==
    IF result.status
    THEN aggregate(Success(result.index, call(map_function, result.value)), result)
    ELSE result

RECURSIVE run(_, _, _)
RECURSIVE alt_parser(_, _, _, _)
RECURSIVE seq_parser(_, _, _, _, _)
RECURSIVE times_parser(_, _, _, _, _, _, _, _)

\* alt: the body of the loop of alt_parser, given the result of the parser
alt_step(parsers, stream, index, result) ==
    IF result.status THEN result ELSE alt_parser(parsers, stream, index, result)

\* alt: alt_parser, with the parsers still to try and the result so far
alt_parser(parsers, stream, index, result) ==
    IF parsers = <<>> THEN result
    ELSE alt_step(Tail(parsers), stream, index,
                  aggregate(run(Head(parsers), stream, index), result))

\* seq: the body of the loop of seq_parser, given the result of the parser
seq_step(parsers, stream, values, result) ==
    IF ~result.status THEN result
    ELSE seq_parser(parsers, stream, result.index, Append(values, result.value), result)

\* seq: seq_parser, with the parsers still to run
seq_parser(parsers, stream, index, values, result) ==
    IF parsers = <<>> THEN aggregate(Success(index, values), result)
    ELSE seq_step(Tail(parsers), stream, values,
                  aggregate(run(Head(parsers), stream, index), result))

\* times: the body of the while loop of times_parser, given the result of self
times_step(P, min, max, stream, values, index, times_, result) ==
    IF result.status
    THEN times_parser(P, min, max, stream, Append(values, result.value),
                      result.index, times_ + 1, result)
    ELSE IF times_ >= min THEN aggregate(Success(index, values), result)
    ELSE result

\* times: times_parser, after times_ rounds that gave values
times_parser(P, min, max, stream, values, index, times_, result) ==
    IF max < 0 \/ times_ < max
    THEN times_step(P, min, max, stream, values, index, times_,
                    aggregate(run(P, stream, index), result))
    ELSE aggregate(Success(index, values), result)

\* Parser.__call__: the result of a parser at an index of a stream
run(P, stream, index) ==
    CASE P.op = "string" -> string_parser(P.expected_string, P.transform, stream, index)
      [] P.op = "regex" -> regex_parser(P.exp, match_end(P.exp, stream, index), stream, index)
      [] P.op = "eof" -> eof_parser(stream, index)
      [] P.op = "desc" -> desc_parser(run(P.parser, stream, index), P.description, index)
      [] P.op = "map" -> bound_parser(run(P.parser, stream, index), P.map_function)
      [] P.op = "alt" -> alt_parser(P.parsers, stream, index, NoResult)
      [] P.op = "seq" -> seq_parser(P.parsers, stream, index, <<>>, NoResult)
      [] P.op = "times" -> times_parser(P.parser, P.min, P.max, stream, <<>>, index, 0, NoResult)

\* Parser.parse_partial: the value and the index the parser stopped at, or
\* ParseError(expected, stream, furthest)
parse_outcome(result) ==
    IF result.status
    THEN [ok |-> TRUE, value |-> result.value, index |-> result.index]
    ELSE [ok |-> FALSE, expected |-> result.expected, index |-> result.furthest]

parse_partial(P, stream) == parse_outcome(run(P, stream, 0))

\* Parser.parse: (self << eof).parse_partial(stream)
parse(P, stream) == parse_partial(skip(P, eof), stream)

-----------------------------------------------------------------------------
(* The texts the model writes, and the hashes of the processes it runs in *)

MaxChunks == 5
MaxAfterNoDot == 2
MaxRaw == 3

Comma == <<",">>
Semicolon == <<";">>

\* a.b: and, without its dot, ab:
RefGood == <<"a", ".", "b", ":">>
RefNoDot == <<"a", "b", ":">>

\* 7, 1.5e1 (the integer 15 in another notation) and 2.5
NumAtoms == {<<"7">>, <<"1", ".", "5", "e", "1">>, <<"2", ".", "5">>}
\* "a", "b" and "a", which is "a" again
StrAtoms == {<<"\"", "a", "\"">>, <<"\"", "b", "\"">>,
             <<"\"", "\\", "u", "0", "0", "6", "1", "\"">>}
BoolAtoms == {Chars("true"), Chars("false")}
NullAtoms == {Chars("null")}

Atoms == NumAtoms \cup StrAtoms \cup BoolAtoms \cup NullAtoms
Chunks == Atoms \cup {Comma, Semicolon, RefGood}

\* The hashes: hash(None) is the address of None in the build, the hash of a
\* string is drawn by the process.  Two strings may share a slot of the set's
\* table (3) or not (3 and 4); so may None and a string (3), or None, False
\* and 0 (0).
StrValues == {json_loads(a).s : a \in StrAtoms}
StrHashes == {3, 4}
StrHashings == {h \in [StrValues -> StrHashes] : h[<<ord("b")>>] = 3}
NoneHashes == {0, 3}

NotRun == [t |-> "NotRun"]

\* an atom or a reference is written at the start of the text or after a
\* delimiter, so that no two literals run into one another
MayFollow(text, chunk) ==
    IF chunk \in {Comma, Semicolon} \/ text = <<>> THEN TRUE
    ELSE text[Len(text)] \in {":", ",", ";"}

-----------------------------------------------------------------------------
(* Spec: a text is written chunk by chunk and handed to predicate_list.parse *)

NormIdle == raw = <<>> /\ raw2 = <<>> /\ norm = <<>> /\ norm2 = <<>> /\ renorm = <<>>

Init ==
    /\ input \in {RefGood, RefNoDot}
    /\ written = 0
    /\ pc = "input"
    /\ outcome = NotRun
    /\ partial = NotRun
    /\ hash_none \in NoneHashes
    /\ hash_str \in StrHashings
    /\ NormIdle

\* a text that begins ab: is rejected at offset 0 whatever follows it
StartsWith(text, prefix) == Len(text) >= Len(prefix) /\ SubSeq(text, 1, Len(prefix)) = prefix

Write(chunk) ==
    /\ pc = "input"
    /\ written < (IF StartsWith(input, RefNoDot) THEN MaxAfterNoDot ELSE MaxChunks)
    /\ MayFollow(input, chunk)
    /\ input' = input \o chunk
    /\ written' = written + 1
    /\ UNCHANGED <<pc, outcome, partial, hash_none, hash_str, raw, raw2, norm, norm2, renorm>>

Parse ==
    /\ pc = "input"
    /\ outcome' = parse(predicate_list, input)
    /\ pc' = "done"
    /\ UNCHANGED <<input, written, partial, hash_none, hash_str, raw, raw2, norm, norm2, renorm>>

Next ==
    \/ \E chunk \in Chunks : Write(chunk)
    \/ Parse

Spec == Init /\ [][Next]_vars

-----------------------------------------------------------------------------
(* SpecList: a text is written and handed to one of the delimited lists,    *)
(* applied at offset 0 as a parser of its own (no end of input is asked)    *)

ListParsers == {"num_or_null_token_list", "str_or_null_token_list",
                "bool_null_token_list", "predicate_list"}

ListParser(p) ==
    CASE p = "num_or_null_token_list" -> num_or_null_token_list
      [] p = "str_or_null_token_list" -> str_or_null_token_list
      [] p = "bool_null_token_list" -> bool_null_token_list
      [] p = "predicate_list" -> predicate_list

Delimiter(p) == IF p = "predicate_list" THEN ";" ELSE ","

InitList ==
    /\ input = <<>>
    /\ written = 0
    /\ pc = "input"
    /\ outcome = NotRun
    /\ partial = NotRun
    /\ hash_none \in NoneHashes
    /\ hash_str \in StrHashings
    /\ NormIdle

Apply(p) ==
    /\ pc = "input"
    /\ partial' = [parser |-> p, result |-> run(ListParser(p), input, 0)]
    /\ pc' = "done"
    /\ UNCHANGED <<input, written, outcome, hash_none, hash_str, raw, raw2, norm, norm2, renorm>>

NextList ==
    \/ \E chunk \in Chunks : Write(chunk)
    \/ \E p \in ListParsers : Apply(p)

SpecList == InitList /\ [][NextList]_vars

-----------------------------------------------------------------------------
(* SpecNorm: unique_sort_list on the raw element lists the parsers hand it  *)

Seqs(S, n) == UNION {[1..k -> S] : k \in 1..n}

\* the lists of each kind, as num_or_null_token_list (after its coercion),
\* str_or_null_token_list and bool_null_token_list return them
RawLists(kind) ==
    CASE kind = "num" -> {num_list_coerce(l) : l \in Seqs({float(a) : a \in NumAtoms} \cup {None}, MaxRaw)}
      [] kind = "str" -> Seqs({json_loads(a) : a \in StrAtoms} \cup {None}, MaxRaw)
      [] kind = "bool" -> Seqs({bool(TRUE), bool(FALSE), None}, MaxRaw)

InitNorm ==
    /\ input = <<>>
    /\ written = 0
    /\ pc = "raw"
    /\ outcome = NotRun
    /\ partial = NotRun
    /\ hash_none \in NoneHashes
    /\ hash_str \in StrHashings
    /\ \E kind \in {"num", "str", "bool"} : raw \in RawLists(kind) /\ raw2 \in RawLists(kind)
    /\ norm = <<>> /\ norm2 = <<>> /\ renorm = <<>>

Normalize ==
    /\ pc = "raw"
    /\ norm' = unique_sort_list(raw)
    /\ norm2' = unique_sort_list(raw2)
    /\ pc' = "normalized"
    /\ UNCHANGED <<input, written, outcome, partial, hash_none, hash_str, raw, raw2, renorm>>

Renormalize ==
    /\ pc = "normalized"
    /\ renorm' = unique_sort_list(norm)
    /\ pc' = "renormalized"
    /\ UNCHANGED <<input, written, outcome, partial, hash_none, hash_str, raw, raw2, norm, norm2>>

NextNorm == Normalize \/ Renormalize

SpecNorm == InitNorm /\ [][NextNorm]_vars

-----------------------------------------------------------------------------
(* What the claims speak of *)

Parsed == pc = "done" /\ outcome # NotRun
Accepted == Parsed /\ outcome.ok
Predicates == IF Accepted THEN outcome.value.predicates ELSE <<>>
Exprs == {Predicates[k].expr : k \in DOMAIN Predicates}

\* The clauses of the text: what the semicolons separate (no string of
\* StrAtoms holds a semicolon or a colon)
Semis == {i \in 1..Len(input) : input[i] = ";"}
NthSemi(k) == CHOOSE i \in Semis : Cardinality({j \in Semis : j < i}) = k - 1
ClauseText(k) ==
    SubSeq(input,
           IF k = 1 THEN 1 ELSE NthSemi(k - 1) + 1,
           IF k = Cardinality(Semis) + 1 THEN Len(input) ELSE NthSemi(k) - 1)

\* The raw elements of the value list of clause k, as the list parser of the
\* given Expr type returns them (after the coercion of the numbers)
ValueOffset(text) == CHOOSE i \in 1..Len(text) : text[i] = ":" /\ \A j \in 1..(i - 1) : text[j] # ":"
RawElements(type, k) ==
    LET text == ClauseText(k)
        list == CASE type = "NumExpr" -> num_or_null_token_list
                  [] type = "StrExpr" -> str_or_null_token_list
                  [] type = "BoolNullExpr" -> bool_null_token_list
    IN  run(list, text, ValueOffset(text)).value

\* The natural order of two defined elements of one list
RECURSIVE LexLess(_, _)
LexLess(a, b) ==
    IF b = <<>> THEN FALSE
    ELSE IF a = <<>> THEN TRUE
    ELSE IF a[1] # b[1] THEN a[1] < b[1]
    ELSE LexLess(Tail(a), Tail(b))

NaturalLess(a, b) ==
    CASE a.t = "int" -> a.n < b.n
      [] a.t = "float" -> a.m * Pow10(b.k) < b.m * Pow10(a.k)
      [] a.t = "bool" -> ~a.b /\ b.b
      [] a.t = "str" -> LexLess(a.s, b.s)

Defined(value) == {i \in DOMAIN value : value[i] # None}

-----------------------------------------------------------------------------
(* The claims *)

\* C1: in every Expr of an accepted text the null sentinel, when present, is
\* the last element of the value tuple and the defined elements before it are
\* in ascending natural order.
C1_NullLastDefinedAscending ==
    \A e \in Exprs : \A i, j \in DOMAIN e.value :
        i < j => /\ e.value[i] # None
                 /\ (e.value[j] # None => NaturalLess(e.value[i], e.value[j]))

\* C2: two raw element lists of one kind with the same set of distinct
\* elements are normalised to the same sequence.
C2_PermutationAndDuplicateInvariant ==
    (pc # "raw" /\ Range(raw) = Range(raw2)) => norm = norm2

\* C3: the value list of a one-clause text a.b:<values> that conforms in full
\* to one of the three list grammars is accepted, with the Expr variant of the
\* first of str_list, num_list, bool_list it conforms to.
ValueText == SubSeq(input, Len(RefGood) + 1, Len(input))
Conforms(p) == parse(ListParser(p), ValueText).ok
C3_FirstConformingGrammarWins ==
    (Parsed /\ StartsWith(input, RefGood) /\ Semis = {}) =>
        LET type == IF Conforms("str_or_null_token_list") THEN "StrExpr"
                    ELSE IF Conforms("num_or_null_token_list") THEN "NumExpr"
                    ELSE IF Conforms("bool_null_token_list") THEN "BoolNullExpr"
                    ELSE "none"
        IN  type # "none" => (outcome.ok /\ Predicates[1].expr.type = type)

\* C4: a text that ends in a delimiter, "," or ";", is not accepted: the parse
\* fails and returns no TablePredicateList.
C4_TrailingDelimiterFails ==
    (Parsed /\ input # <<>> /\ input[Len(input)] \in {",", ";"}) => ~outcome.ok

\* C4, witness: the text before the trailing delimiter is accepted on its own,
\* and the text with the delimiter has been refused
C4_Witness ==
    /\ Parsed /\ ~outcome.ok
    /\ input[Len(input)] \in {",", ";"}
    /\ parse(predicate_list, SubSeq(input, 1, Len(input) - 1)).ok

\* C5: the non-null elements of a NumExpr are all ints or all floats, never a
\* mix, and they are floats only when one of them is not integral.
C5_NumExprOneKind ==
    \A e \in Exprs : e.type = "NumExpr" =>
        \/ \A i \in Defined(e.value) : e.value[i].t = "int"
        \/ /\ \A i \in Defined(e.value) : e.value[i].t = "float"
           /\ \E i \in Defined(e.value) : ~is_integer(e.value[i])

\* C5, witness: 1.5e1,2.5 (or 2.5,1.5e1), where 2.5 makes a float of the
\* integral 1.5e1
C5_Witness ==
    \E e \in Exprs :
        /\ e.type = "NumExpr"
        /\ Range(e.value) = {Decimal(15, 0), Decimal(25, 1)}

\* C6: the value tuple of every Expr of an accepted text has at least one
\* element, no two equal elements, and the very elements of the raw parsed
\* list (after the coercion of numbers); is_empty() is false.
C6_NonEmptyDistinctSameElements ==
    \A k \in DOMAIN Predicates :
        LET e == Predicates[k].expr
        IN  /\ Len(e.value) >= 1
            /\ ~is_empty(e)
            /\ \A i, j \in DOMAIN e.value : i # j => e.value[i] # e.value[j]
            /\ Range(e.value) = Range(RawElements(e.type, k))

\* C6, witness: a raw list of three elements, one of them a repeat
C6_Witness ==
    \E k \in DOMAIN Predicates :
        /\ Len(RawElements(Predicates[k].expr.type, k)) = 3
        /\ Len(Predicates[k].expr.value) = 2

\* C7: a failed parse reports the offset and the label of the sub-parser that
\* went furthest: a.b: fails at the offset after the colon with a label of the
\* value-list grammar, ab:7 fails with the label of the table.column reference.
ValueListLabels ==
    {"expression", "string list expression", "number list expression",
     "true/false list expression", "comma delimited list of ints or floats",
     "comma delimited list of valid, JSON-encoded strings",
     "comma delimited list of true/false/null",
     "number", "null", "valid, JSON-encoded string", "true/false/null"}
C7_FailureNamesFurthestSubParser ==
    Parsed =>
        /\ input = RefGood =>
               /\ ~outcome.ok
               /\ outcome.index = Len(RefGood)
               /\ outcome.expected \subseteq ValueListLabels
        /\ input = RefNoDot \o <<"7">> =>
               /\ ~outcome.ok
               /\ outcome.expected = {"table.column reference"}

\* C8: the predicates of an accepted text are its clauses, one per clause and
\* in the order of the text; clauses with the same reference are all kept.
C8_PredicatesAreTheClausesInOrder ==
    Accepted =>
        /\ Len(Predicates) = Cardinality(Semis) + 1
        /\ \A k \in DOMAIN Predicates :
               LET alone == parse(predicate_list, ClauseText(k))
               IN  alone.ok /\ alone.value.predicates = <<Predicates[k]>>

\* C8, witness: two clauses with the same reference and different values
C8_Witness ==
    /\ Len(Predicates) = 2
    /\ Predicates[1].table_reference = Predicates[2].table_reference
    /\ Predicates[1].expr # Predicates[2].expr

\* C9: unique_sort_list applied to its own result returns it unchanged.
C9_NormalisationIdempotent ==
    pc = "renormalized" => renorm = norm

\* C10: a delimited list applied as a parser of its own never succeeds with a
\* shorter list and leaves its delimiter at the head of the rest of the text.
C10_ListNeverStopsBeforeDelimiter ==
    (pc = "done" /\ partial # NotRun /\ partial.result.status) =>
        ~(/\ partial.result.index < Len(input)
          /\ input[partial.result.index + 1] = Delimiter(partial.parser))

=============================================================================
